---------------------------- MODULE Spec2Model ----------------------------
(* mockpath: a directory of route specs compiled into a routing table     *)
(* (load_specs), a request handler matching requests against the table    *)
(* (MockHandler.handle_request) and a polling watcher that replaces the    *)
(* table (watch_reload).  Modelled from src/src/mockpath/cli.py.           *)
EXTENDS Integers, Sequences, FiniteSets, TLC

(**************************************************************************)
(* Bounds of the model.                                                   *)
(**************************************************************************)
\* number of file-system changes the environment makes in one run
MaxClock == 3

(**************************************************************************)
(* Values.  A JSON value (what a text denotes) and a Python value (what   *)
(* json.loads / yaml.safe_load build) have the same shape, a record       *)
(* [ty, n, s, items]; ty is the JSON type resp. the Python type.          *)
(**************************************************************************)
Val(ty, n, s, items) == [ty |-> ty, n |-> n, s |-> s, items |-> items]
Item(k, v) == [k |-> k, val |-> v]

JNull == Val("null", 0, "", <<>>)
JBool(b) == Val("boolean", IF b THEN 1 ELSE 0, "", <<>>)
JNum(n) == Val("number", n, "", <<>>)
JStr(s) == Val("string", 0, s, <<>>)
JObj(items) == Val("object", 0, "", items)

PyNone == Val("NoneType", 0, "", <<>>)
PyBool(b) == Val("bool", IF b THEN 1 ELSE 0, "", <<>>)
PyInt(n) == Val("int", n, "", <<>>)
PyStr(s) == Val("str", 0, s, <<>>)
PyDict(items) == Val("dict", 0, "", items)
PyList(elems) == Val("list", 0, "", [i \in 1..Len(elems) |-> Item("", elems[i])])

\* the json decoder's translation of JSON types to Python types
PyTypeOf(jt) ==
    CASE jt = "null" -> "NoneType"
      [] jt = "boolean" -> "bool"
      [] jt = "number" -> "int"
      [] jt = "string" -> "str"
      [] jt = "object" -> "dict"

RECURSIVE ToPython(_)
ToPython(j) ==
    Val(PyTypeOf(j.ty), j.n, j.s,
        [i \in 1..Len(j.items) |-> Item(j.items[i].k, ToPython(j.items[i].val))])

\* Python's == on decoded values: bool is a subclass of int, so True == 1
\* and False == 0; dicts compare by key set and values, lists by position.
NumericTys == {"bool", "int"}

RECURSIVE PyEq(_, _)
PyEq(a, b) ==
    IF a.ty \in NumericTys /\ b.ty \in NumericTys THEN a.n = b.n
    ELSE IF a.ty # b.ty THEN FALSE
    ELSE IF a.ty = "NoneType" THEN TRUE
    ELSE IF a.ty = "str" THEN a.s = b.s
    ELSE IF a.ty = "list" THEN
        /\ Len(a.items) = Len(b.items)
        /\ \A i \in 1..Len(a.items) : PyEq(a.items[i].val, b.items[i].val)
    ELSE \* dict
        /\ Len(a.items) = Len(b.items)
        /\ \A i \in 1..Len(a.items) : \E j \in 1..Len(b.items) :
              /\ a.items[i].k = b.items[j].k
              /\ PyEq(a.items[i].val, b.items[j].val)

IsNone(v) == v.ty = "NoneType"

(**************************************************************************)
(* Texts.  A JSON text is named by a string; JsonValue is the value it    *)
(* denotes and JsonValid whether json.load accepts it.  The texts stand   *)
(* for {"id": 1}, {"id": "1"}, {"id": true}, {"id": 2}, null and the      *)
(* malformed text "{".                                                    *)
(**************************************************************************)
JsonValid(text) == text \in {"{id:1}", "{id:'1'}", "{id:true}", "{id:2}", "null"}

JsonValue(text) ==
    CASE text = "{id:1}" -> JObj(<<Item("id", JNum(1))>>)
      [] text = "{id:'1'}" -> JObj(<<Item("id", JStr("1"))>>)
      [] text = "{id:true}" -> JObj(<<Item("id", JBool(TRUE))>>)
      [] text = "{id:2}" -> JObj(<<Item("id", JNum(2))>>)
      [] text = "null" -> JNull

\* json.load / json.loads of a valid text
JsonLoads(text) == ToPython(JsonValue(text))

\* A YAML text is malformed, empty, or a mapping; Mapping(c) is the text of
\* the mapping c, whose scalar values are given as yaml.safe_load builds them.
NoMapping == [k \in {} |-> 0]
YamlMalformed == [kind |-> "bad", map |-> NoMapping]
YamlEmpty == [kind |-> "empty", map |-> NoMapping]
Mapping(c) == [kind |-> "map", map |-> c]

YamlValid(text) == text.kind # "bad"

\* config = yaml.safe_load(f) or {}
YamlConfig(text) == IF text.kind = "map" THEN text.map ELSE NoMapping

\* dict.get(key, default)
Get(d, key, default) == IF key \in DOMAIN d THEN d[key] ELSE default

(**************************************************************************)
(* Paths.  A file under the spec root is [dir, name]: the directory       *)
(* segments relative to the root and the file name split on ".".          *)
(**************************************************************************)
File(dir, name) == [dir |-> dir, name |-> name]

Suffix(p) == IF Len(p.name) >= 2 THEN p.name[Len(p.name)] ELSE ""

\* yaml_path.stem.split(".")
StemParts(p) == SubSeq(p.name, 1, Len(p.name) - 1)

\* yaml_path.with_name(...) and yaml_path.parent / relative
WithName(p, name) == File(p.dir, name)

\* str.upper() on the method tokens of the model
Upper(s) ==
    CASE s = "get" -> "GET"
      [] s = "post" -> "POST"
      [] s = "Get" -> "GET"
      [] OTHER -> s

\* "/" + "/".join([*rel.parts, name]); a URL path is its sequence of
\* separators and segments
RECURSIVE SlashJoin(_)
SlashJoin(segs) ==
    IF segs = <<>> THEN <<>> ELSE <<"/", Head(segs)>> \o SlashJoin(Tail(segs))

\* variant: the directory of the spec file left out of the URL path
UrlPathNoDir(p) == SlashJoin(<<StemParts(p)[1]>>)

UrlPath(p) == SlashJoin(p.dir \o <<StemParts(p)[1]>>)

RouteKey(p) == <<Upper(StemParts(p)[2]), UrlPath(p)>>

\* order of the strings of the model (code-point order: digits, upper case,
\* lower case)
StrRank(s) ==
    CASE s = "1" -> 1
      [] s = "2" -> 2
      [] s = "GET" -> 3
      [] s = "Get" -> 4
      [] s = "a" -> 5
      [] s = "b" -> 6
      [] s = "d" -> 7
      [] s = "get" -> 8
      [] s = "json" -> 9
      [] s = "notes" -> 10
      [] s = "payload" -> 11
      [] s = "post" -> 12
      [] s = "req" -> 13
      [] s = "resp" -> 14
      [] s = "v2" -> 15
      [] s = "yaml" -> 16

RECURSIVE SeqLess(_, _)
SeqLess(a, b) ==
    IF a = <<>> THEN b # <<>>
    ELSE IF b = <<>> THEN FALSE
    ELSE IF Head(a) # Head(b) THEN StrRank(Head(a)) < StrRank(Head(b))
    ELSE SeqLess(Tail(a), Tail(b))

\* Path.__lt__: the parts compared in order, a directory segment against a
\* file name where the depths differ
RECURSIVE PartsLess(_, _, _, _)
PartsLess(d1, n1, d2, n2) ==
    IF d1 = <<>> /\ d2 = <<>> THEN SeqLess(n1, n2)
    ELSE IF d1 = <<>> THEN
        IF n1 = <<Head(d2)>> THEN TRUE ELSE SeqLess(n1, <<Head(d2)>>)
    ELSE IF d2 = <<>> THEN
        IF n2 = <<Head(d1)>> THEN FALSE ELSE SeqLess(<<Head(d1)>>, n2)
    ELSE IF Head(d1) # Head(d2) THEN StrRank(Head(d1)) < StrRank(Head(d2))
    ELSE PartsLess(Tail(d1), n1, Tail(d2), n2)

PathLess(p, q) == PartsLess(p.dir, p.name, q.dir, q.name)

\* sorted(...)
RECURSIVE Sorted(_)
Sorted(S) ==
    IF S = {} THEN <<>>
    ELSE LET m == CHOOSE x \in S : \A y \in S \ {x} : PathLess(x, y)
         IN  <<m>> \o Sorted(S \ {m})

(**************************************************************************)
(* load_specs.  A directory is a function from the files present to       *)
(* [mtime, text].  A routing table is a function from route keys          *)
(* <<method, path>> to RouteEntry records.                                *)
(**************************************************************************)
MatchEntry(params, request_body, status, response) ==
    [params |-> params, request_body |-> request_body,
     status |-> status, response |-> response]

RouteEntry(status, default_response, matches) ==
    [status |-> status, default_response |-> default_response,
     matches |-> matches]

\* routes: dict = {} (module level)
NoRoutes == [k \in {} |-> 0]

\* default of config.get("status", 200)
DefaultStatus == 200

\* open(q) and json.load raise: q is missing or its text is not JSON
ReadJsonFails(dir, q) == q \notin DOMAIN dir \/ ~JsonValid(dir[q].text)

ReadJson(dir, q) == JsonLoads(dir[q].text)

\* the convention file read when it exists, else None
ConvFails(dir, q) == q \in DOMAIN dir /\ ReadJsonFails(dir, q)

ConvValue(dir, q) == IF q \in DOMAIN dir THEN ReadJson(dir, q) ELSE PyNone

\* variant: the default response file named without the method token
DefaultRespFileNoMethod(p) == WithName(p, <<StemParts(p)[1], "resp", "json">>)

\* <name>.<parts[1]>.resp.json, <name>.<parts[1]>.<kind>.<i>.json
DefaultRespFile(p) ==
    WithName(p, <<StemParts(p)[1], StemParts(p)[2], "resp", "json">>)

\* variant: the rules counted from 0
OrdinalFileZeroBased(p, kind, i) ==
    WithName(p, <<StemParts(p)[1], StemParts(p)[2], kind, ToString(i - 1), "json">>)

OrdinalFile(p, kind, i) ==
    WithName(p, <<StemParts(p)[1], StemParts(p)[2], kind, ToString(i), "json">>)

\* Resolve response: inline > response_file > convention
MatchResponseFails(dir, p, m, i) ==
    IF "response" \in DOMAIN m THEN FALSE
    ELSE IF "response_file" \in DOMAIN m
         THEN ReadJsonFails(dir, WithName(p, m.response_file))
    ELSE ConvFails(dir, OrdinalFile(p, "resp", i))

MatchResponse(dir, p, m, i) ==
    IF "response" \in DOMAIN m THEN m.response
    ELSE IF "response_file" \in DOMAIN m
         THEN ReadJson(dir, WithName(p, m.response_file))
    ELSE ConvValue(dir, OrdinalFile(p, "resp", i))

\* Resolve request body: inline > request_file > convention
MatchRequestFails(dir, p, m, i) ==
    IF "request" \in DOMAIN m THEN FALSE
    ELSE IF "request_file" \in DOMAIN m
         THEN ReadJsonFails(dir, WithName(p, m.request_file))
    ELSE ConvFails(dir, OrdinalFile(p, "req", i))

MatchRequest(dir, p, m, i) ==
    IF "request" \in DOMAIN m THEN m.request
    ELSE IF "request_file" \in DOMAIN m
         THEN ReadJson(dir, WithName(p, m.request_file))
    ELSE ConvValue(dir, OrdinalFile(p, "req", i))

\* the body of the loop over enumerate(config.get("matches", []), start=1)
BuildMatch(dir, p, m, i, default_status) ==
    MatchEntry(Get(m, "params", PyNone),
               MatchRequest(dir, p, m, i),
               Get(m, "status", default_status),
               MatchResponse(dir, p, m, i))

\* the RouteEntry built from spec file p
BuildRoute(dir, p) ==
    LET config == YamlConfig(dir[p].text)
        default_status == Get(config, "status", DefaultStatus)
        ms == Get(config, "matches", <<>>)
    IN  RouteEntry(default_status,
                   ConvValue(dir, DefaultRespFile(p)),
                   [i \in 1..Len(ms) |-> BuildMatch(dir, p, ms[i], i, default_status)])

\* an exception leaves the loop body for spec file p
BuildRouteFails(dir, p) ==
    \/ ~YamlValid(dir[p].text)
    \/ ConvFails(dir, DefaultRespFile(p))
    \/ LET ms == Get(YamlConfig(dir[p].text), "matches", <<>>)
       IN  \E i \in 1..Len(ms) :
              MatchResponseFails(dir, p, ms[i], i) \/ MatchRequestFails(dir, p, ms[i], i)

\* spec_dir.rglob("*.yaml")
YamlFiles(dir) == {p \in DOMAIN dir : Suffix(p) = "yaml"}

\* the files the loop does not skip: len(parts) >= 2
IsRouteFile(p) == Len(StemParts(p)) >= 2

\* variant: an entry already in the table is kept
PutKeepFirst(table, key, entry) ==
    [k \in DOMAIN table \cup {key} |-> IF k \in DOMAIN table THEN table[k] ELSE entry]

\* routes[(method, url_path)] = RouteEntry(...)
Put(table, key, entry) ==
    [k \in DOMAIN table \cup {key} |-> IF k = key THEN entry ELSE table[k]]

RECURSIVE LoadFrom(_, _, _)
LoadFrom(dir, files, table) ==
    IF files = <<>> THEN table
    ELSE LET p == Head(files)
         IN  IF IsRouteFile(p)
             THEN LoadFrom(dir, Tail(files), Put(table, RouteKey(p), BuildRoute(dir, p)))
             ELSE LoadFrom(dir, Tail(files), table)

\* load_specs raises
LoadFails(dir) == \E p \in YamlFiles(dir) : IsRouteFile(p) /\ BuildRouteFails(dir, p)

\* load_specs returns
LoadSpecs(dir) == LoadFrom(dir, Sorted(YamlFiles(dir)), NoRoutes)

(**************************************************************************)
(* Requests.  A request is [command, path, query, body]: path is the raw  *)
(* URL path as a sequence of separators and segments, query the sequence  *)
(* of key=value pairs of the query string, body the raw body text ("" is  *)
(* Content-Length 0).                                                     *)
(**************************************************************************)
Request(command, path, query, body) ==
    [command |-> command, path |-> path, query |-> query, body |-> body]

QP(k, v) == [k |-> k, v |-> v]

\* str.rstrip("/")
RECURSIVE RStripSlash(_)
RStripSlash(path) ==
    IF path # <<>> /\ path[Len(path)] = "/"
    THEN RStripSlash(SubSeq(path, 1, Len(path) - 1))
    ELSE path

\* path = parsed.path.rstrip("/") or "/"
NormPath(r) == IF RStripSlash(r.path) = <<>> THEN <<"/">> ELSE RStripSlash(r.path)

\* method = self.command.upper()
Method(r) == Upper(r.command)

\* parse_qs: the values of key k in order, blank values dropped
RECURSIVE QsValues(_, _)
QsValues(query, k) ==
    IF query = <<>> THEN <<>>
    ELSE (IF Head(query).k = k /\ Head(query).v # "" THEN <<Head(query).v>> ELSE <<>>)
         \o QsValues(Tail(query), k)

QsKeys(query) ==
    {query[i].k : i \in {j \in 1..Len(query) : query[j].v # ""}}

\* variant: the first value of a parameter is taken
FlattenFirst(vs) == PyStr(vs[1])

FlattenSingle(vs) == IF Len(vs) = 1 THEN PyStr(vs[1]) ELSE PyList([i \in 1..Len(vs) |-> PyStr(vs[i])])

\* query_flat = {k: v[0] if len(v) == 1 else v for k, v in query.items()}
QueryFlat(r) == [k \in QsKeys(r.query) |-> FlattenSingle(QsValues(r.query, k))]

\* variant: an empty params mapping holds for no request
ParamsHoldNonEmpty(params, query_flat) ==
    /\ params.items # <<>>
    /\ \A i \in 1..Len(params.items) :
          PyEq(Get(query_flat, params.items[i].k, PyNone), params.items[i].val)

\* all(query_flat.get(k) == v for k, v in m.params.items())
ParamsHold(params, query_flat) ==
    \A i \in 1..Len(params.items) :
        PyEq(Get(query_flat, params.items[i].k, PyNone), params.items[i].val)

\* _read_body: None for Content-Length 0 and for a body that is not JSON
ReadBody(r) ==
    IF r.body = "" THEN PyNone
    ELSE IF JsonValid(r.body) THEN JsonLoads(r.body)
    ELSE PyNone

\* self.rfile.read is called
ReadsStream(r) == r.body # ""

\* what handle_request writes: the status line and the payload, <<>> being
\* the empty payload and <<v>> json.dumps(v)
Response(status, payload) == [status |-> status, payload |-> payload]

\* _send(status, body)
Send(status, body) == Response(status, IF IsNone(body) THEN <<>> ELSE <<body>>)

ErrorPayload(status) ==
    PyDict(<<Item("error", PyStr(IF status = 405 THEN "Method Not Allowed" ELSE "Not Found"))>>)

\* the branch taken when no route is found
ErrorStatus(path_exists) == IF path_exists THEN 405 ELSE 404

SendError(path_exists) ==
    Response(ErrorStatus(path_exists), <<ErrorPayload(ErrorStatus(path_exists))>>)

\* variant: the path is compared as it was sent
PathExistsRaw(table, r) == \E k \in DOMAIN table : k[2] = r.path

\* path_exists = any(p == path for (_, p) in routes)
PathExists(table, r) == \E k \in DOMAIN table : k[2] = NormPath(r)

\* route = routes.get((method, path)): <<>> is None
Lookup(table, r) ==
    IF <<Method(r), NormPath(r)>> \in DOMAIN table
    THEN <<table[<<Method(r), NormPath(r)>>]>>
    ELSE <<>>

(**************************************************************************)
(* The decisions of handle_request and watch_reload.                      *)
(**************************************************************************)
\* variant: a RouteEntry without rules taken for no route
RouteMissingOrNoRules(route) == route = <<>> \/ route[1].matches = <<>>

\* if not route:
RouteMissing(route) == route = <<>>

\* m.params is not None: the rule is evaluated on the query string
IsParamsRule(m) == ~IsNone(m.params)

\* variant: the body branch taken whatever params is
IsBodyRuleAnyParams(m) == ~IsNone(m.request_body)

\* elif m.request_body is not None: the rule is evaluated on the body
IsBodyRule(m) == IsNone(m.params) /\ ~IsNone(m.request_body)

\* variant: the body_read flag is not consulted
NeedsReadAlways(body_read) == TRUE

\* if not body_read:
NeedsRead(body_read) == ~body_read

\* variant: a request without a usable body satisfies every body rule
RuleHoldsAbsentBody(m, query_flat, b) ==
    IF IsParamsRule(m) THEN ParamsHold(m.params, query_flat)
    ELSE IF IsBodyRule(m) THEN IsNone(b) \/ PyEq(b, m.request_body)
    ELSE FALSE

\* the condition of the rule's if, b being the body the handler holds
RuleHolds(m, query_flat, b) ==
    IF IsParamsRule(m) THEN ParamsHold(m.params, query_flat)
    ELSE IF IsBodyRule(m) THEN PyEq(b, m.request_body)
    ELSE FALSE

\* variant: the loop goes on after a rule has answered
ReturnsNever(holds) == FALSE

\* self._send(m.status, m.response); return
Returns(holds) == holds

\* variant: only the files of the previous snapshot are compared
ChangedKnownFiles(current, mtimes) ==
    \E p \in DOMAIN mtimes : p \notin DOMAIN current \/ current[p] # mtimes[p]

\* if current != mtimes:
Changed(current, mtimes) == current # mtimes

\* variant: the table is cleared when the load starts
AfterReloadCleared(dir, table) == IF LoadFails(dir) THEN NoRoutes ELSE LoadSpecs(dir)

\* variant: the reload writes into the table that is live
AfterReloadMerged(dir, table) ==
    IF LoadFails(dir) THEN table ELSE LoadFrom(dir, Sorted(YamlFiles(dir)), table)

\* the table that is live after routes = load_specs(spec_dir) ran on dir
AfterReload(dir, table) == IF LoadFails(dir) THEN table ELSE LoadSpecs(dir)

\* p.is_file() and p.suffix in (".yaml", ".json")
Watched(dir) == {p \in DOMAIN dir : Suffix(p) \in {"yaml", "json"}}

(**************************************************************************)
(* State.                                                                 *)
(**************************************************************************)
VARIABLES
    fs,           \* the spec directory: present file -> [mtime, text]
    clock,        \* the time of the last change of the directory
    reload,       \* the --reload flag
    mpc,          \* main: "start", "serving", "exit"
    routes,       \* the global routing table
    wpc,          \* watch_reload: "off", "snapshot", "stat0", "sleep", "stat", "load",
                  \* and ended by an exception: "raised_stat", "raised_load"
    listed,       \* snapshot(): the files rglob has yielded
    mtimes,       \* watch_reload: the previous snapshot
    hpc,          \* handle_request: "idle", "lookup", "match", "done"
    req,          \* the request being handled
    path_exists,  \* handle_request locals
    route,
    mi,           \* position of the loop over route.matches (1-based)
    body,
    body_read,
    rfile_reads,  \* number of reads of the request's body stream
    resp,         \* the response written, <<>> before it is
    gens          \* the tables that have been live during the request

wvars == <<wpc, listed, mtimes>>
hvars == <<hpc, req, path_exists, route, mi, body, body_read, rfile_reads, resp>>
vars == <<fs, clock, reload, mpc, routes, wvars, hvars, gens>>

NoMtimes == [p \in {} |-> 0]
NoRequest == Request("", <<>>, <<>>, "")

(**************************************************************************)
(* main                                                                   *)
(**************************************************************************)
\* routes = load_specs(spec_path); with --reload the watcher thread starts
MainLoad ==
    /\ mpc = "start"
    /\ IF LoadFails(fs)
       THEN /\ mpc' = "exit"
            /\ UNCHANGED <<routes, wpc>>
       ELSE /\ mpc' = "serving"
            /\ routes' = LoadSpecs(fs)
            /\ wpc' = IF reload THEN "snapshot" ELSE "off"
    /\ UNCHANGED <<fs, clock, reload, listed, mtimes, hvars, gens>>

(**************************************************************************)
(* handle_request (the server handles one request at a time)              *)
(**************************************************************************)
\* lines 106-112: the request is parsed and path_exists read from routes
HStart(requests) ==
    /\ mpc = "serving"
    /\ hpc = "idle"
    /\ \E r \in requests :
          /\ req' = r
          /\ path_exists' = PathExists(routes, r)
    /\ hpc' = "lookup"
    /\ route' = <<>>
    /\ mi' = 0
    /\ body' = PyNone
    /\ body_read' = FALSE
    /\ rfile_reads' = 0
    /\ resp' = <<>>
    /\ gens' = {routes}
    /\ UNCHANGED <<fs, clock, reload, mpc, routes, wvars>>

\* lines 114-126: the route is read from routes; 404/405 without one
HLookup ==
    /\ hpc = "lookup"
    /\ route' = Lookup(routes, req)
    /\ IF RouteMissing(route')
       THEN /\ resp' = <<SendError(path_exists)>>
            /\ hpc' = "done"
            /\ mi' = mi
       ELSE /\ resp' = resp
            /\ hpc' = "match"
            /\ mi' = 1
    /\ UNCHANGED <<fs, clock, reload, mpc, routes, wvars, gens,
                   req, path_exists, body, body_read, rfile_reads>>

\* lines 127-138: one iteration of the loop over route.matches
HMatch ==
    /\ hpc = "match"
    /\ mi <= Len(route[1].matches)
    /\ LET m == route[1].matches[mi]
           reads == IsBodyRule(m) /\ NeedsRead(body_read)
           b == IF reads THEN ReadBody(req) ELSE body
           holds == RuleHolds(m, QueryFlat(req), b)
       IN  /\ body' = b
           /\ body_read' = (body_read \/ reads)
           /\ rfile_reads' = IF reads /\ ReadsStream(req) THEN rfile_reads + 1 ELSE rfile_reads
           /\ resp' = IF holds THEN <<Send(m.status, m.response)>> ELSE resp
           /\ hpc' = IF Returns(holds) THEN "done" ELSE "match"
           /\ mi' = IF Returns(holds) THEN mi ELSE mi + 1
    /\ UNCHANGED <<fs, clock, reload, mpc, routes, wvars, gens, req, path_exists, route>>

\* line 140: no rule returned
HDefault ==
    /\ hpc = "match"
    /\ mi > Len(route[1].matches)
    /\ resp' = <<Send(route[1].status, route[1].default_response)>>
    /\ hpc' = "done"
    /\ UNCHANGED <<fs, clock, reload, mpc, routes, wvars, gens,
                   req, path_exists, route, mi, body, body_read, rfile_reads>>

\* the handler returns; the server accepts the next request
HFinish ==
    /\ hpc = "done"
    /\ hpc' = "idle"
    /\ req' = NoRequest
    /\ path_exists' = FALSE
    /\ route' = <<>>
    /\ mi' = 0
    /\ body' = PyNone
    /\ body_read' = FALSE
    /\ rfile_reads' = 0
    /\ resp' = <<>>
    /\ gens' = {}
    /\ UNCHANGED <<fs, clock, reload, mpc, routes, wvars>>

(**************************************************************************)
(* watch_reload                                                           *)
(**************************************************************************)
\* snapshot(), first half: rglob("*") yields the files that pass is_file()
WList ==
    /\ wpc \in {"snapshot", "sleep"}
    /\ listed' = Watched(fs)
    /\ wpc' = IF wpc = "snapshot" THEN "stat0" ELSE "stat"
    /\ UNCHANGED <<fs, clock, reload, mpc, routes, mtimes, hvars, gens>>

\* snapshot(), second half: p.stat() of the files listed; a file that is
\* gone by now raises, which ends the thread.  Then lines 174 resp. 178-179.
WStat ==
    /\ wpc \in {"stat0", "stat"}
    /\ IF ~(listed \subseteq DOMAIN fs)
       THEN /\ wpc' = "raised_stat"
            /\ mtimes' = mtimes
       ELSE LET current == [p \in listed |-> fs[p].mtime]
            IN  IF wpc = "stat0"
                THEN /\ mtimes' = current
                     /\ wpc' = "sleep"
                ELSE IF Changed(current, mtimes)
                THEN /\ mtimes' = current
                     /\ wpc' = "load"
                ELSE /\ mtimes' = mtimes
                     /\ wpc' = "sleep"
    /\ listed' = {}
    /\ UNCHANGED <<fs, clock, reload, mpc, routes, hvars, gens>>

\* lines 180-182: routes = load_specs(spec_dir); an exception of load_specs
\* leaves routes as it is and ends the thread
WReload ==
    /\ wpc = "load"
    /\ routes' = AfterReload(fs, routes)
    /\ wpc' = IF LoadFails(fs) THEN "raised_load" ELSE "sleep"
    /\ gens' = IF hpc = "idle" THEN gens ELSE gens \cup {routes'}
    /\ UNCHANGED <<fs, clock, reload, mpc, listed, mtimes, hvars>>

(**************************************************************************)
(* The environment: files of the spec directory are written and removed.  *)
(**************************************************************************)
FsWrite(writes) ==
    /\ clock < MaxClock
    /\ \E w \in writes :
          fs' = [p \in DOMAIN fs \cup {w[1]} |->
                    IF p = w[1] THEN [mtime |-> clock + 1, text |-> w[2]] ELSE fs[p]]
    /\ clock' = clock + 1
    /\ UNCHANGED <<reload, mpc, routes, wvars, hvars, gens>>

FsRemove ==
    /\ clock < MaxClock
    /\ \E q \in DOMAIN fs : fs' = [p \in DOMAIN fs \ {q} |-> fs[p]]
    /\ clock' = clock + 1
    /\ UNCHANGED <<reload, mpc, routes, wvars, hvars, gens>>

(**************************************************************************)
(* Spec: the server run with --reload on a directory that changes.        *)
(**************************************************************************)
AGet == File(<<>>, <<"a", "get", "yaml">>)
APost == File(<<>>, <<"a", "post", "yaml">>)
Payload == File(<<>>, <<"payload", "json">>)

At(mtime, text) == [mtime |-> mtime, text |-> text]

ParamsKA == PyDict(<<Item("k", PyStr("a"))>>)

\* a.get.yaml: "status: 200"; a rule on ?k=a answering 202 with the
\* content of payload.json; a text that is not YAML
WatchedWrites ==
    { <<AGet, Mapping([status |-> 200])>>,
      <<AGet, Mapping([matches |-> << [params |-> ParamsKA, status |-> 202,
                                       response_file |-> <<"payload", "json">>] >>])>>,
      <<AGet, YamlMalformed>>,
      <<APost, Mapping([status |-> 201])>>,
      <<Payload, "{id:1}">>,
      <<Payload, "{">> }

WatchedRequests ==
    { Request("GET", <<"/", "a">>, <<>>, ""),
      Request("POST", <<"/", "a">>, <<QP("k", "a")>>, "") }

InitLocals ==
    /\ clock = 0
    /\ mpc = "start"
    /\ routes = NoRoutes
    /\ wpc = "off"
    /\ listed = {}
    /\ mtimes = NoMtimes
    /\ hpc = "idle"
    /\ req = NoRequest
    /\ path_exists = FALSE
    /\ route = <<>>
    /\ mi = 0
    /\ body = PyNone
    /\ body_read = FALSE
    /\ rfile_reads = 0
    /\ resp = <<>>
    /\ gens = {}

Init ==
    /\ reload = TRUE
    /\ fs = (AGet :> At(0, Mapping([status |-> 200])))
    /\ InitLocals

Next ==
    \/ MainLoad
    \/ HStart(WatchedRequests)
    \/ HLookup
    \/ HMatch
    \/ HDefault
    \/ HFinish
    \/ WList
    \/ WStat
    \/ WReload
    \/ FsWrite(WatchedWrites)
    \/ FsRemove

Spec == Init /\ [][Next]_vars

(**************************************************************************)
(* SpecStatic: the server run without --reload on a directory that does   *)
(* not change; the spec of /a is drawn from every list of at most         *)
(* MaxMatches rules of RuleMenu and the requests from AllRequests.        *)
(**************************************************************************)
MaxMatches == 2

BPost == File(<<>>, <<"b", "post", "yaml">>)
AGetResp == File(<<>>, <<"a", "get", "resp", "json">>)

IdStr1 == PyDict(<<Item("id", PyStr("1"))>>)
IdInt1 == PyDict(<<Item("id", PyInt(1))>>)

RuleMenu ==
    { [params |-> ParamsKA, status |-> 201, response |-> PyStr("k=a")],
      [params |-> PyDict(<<Item("k", PyStr("b"))>>), response |-> PyStr("k=b")],
      [params |-> PyDict(<<Item("k", PyStr("a")), Item("j", PyStr("b"))>>),
       response |-> PyStr("k=a,j=b")],
      [request_file |-> <<"payload", "json">>, status |-> 202, response |-> PyStr("file")],
      [request |-> IdStr1, response |-> PyStr("inline")],
      [params |-> ParamsKA, request |-> IdInt1, response |-> PyStr("both")],
      [response |-> PyStr("neither")],
      [params |-> PyDict(<<>>), response |-> PyStr("empty")],
      [request |-> PyNone, response |-> PyStr("null")] }

RuleLists == UNION {[1..n -> RuleMenu] : n \in 0..MaxMatches}

StaticDir(ms) ==
    (AGet :> At(0, Mapping([status |-> 203, matches |-> ms])))
    @@ (AGetResp :> At(0, "{id:2}"))
    @@ (Payload :> At(0, "{id:1}"))
    @@ (BPost :> At(0, Mapping([status |-> 201])))

Queries ==
    { <<>>,
      <<QP("k", "a")>>,
      <<QP("k", "b")>>,
      <<QP("k", "a"), QP("k", "b")>>,
      <<QP("k", "a"), QP("j", "b")>>,
      <<QP("k", "a"), QP("k", "")>> }

Bodies == {"", "{", "{id:1}", "{id:'1'}", "{id:true}", "null"}

AllRequests ==
    {Request("GET", <<"/", "a">>, q, b) : q \in Queries, b \in Bodies}
    \cup { Request("GET", <<"/", "a", "/">>, <<QP("k", "a")>>, "{id:1}"),
           Request("POST", <<"/", "a">>, <<>>, "{id:1}"),
           Request("POST", <<"/", "a", "/">>, <<>>, ""),
           Request("GET", <<"/", "b">>, <<>>, ""),
           Request("POST", <<"/", "b", "/", "/">>, <<>>, ""),
           Request("GET", <<"/", "z">>, <<QP("k", "a")>>, "{id:1}"),
           Request("GET", <<"/">>, <<>>, "") }

InitStatic ==
    /\ reload = FALSE
    /\ \E ms \in RuleLists : fs = StaticDir(ms)
    /\ InitLocals

NextStatic ==
    \/ MainLoad
    \/ HStart(AllRequests)
    \/ HLookup
    \/ HMatch
    \/ HDefault
    \/ HFinish

SpecStatic == InitStatic /\ [][NextStatic]_vars

(**************************************************************************)
(* SpecLoad: the server run without --reload on every directory of        *)
(* LoadDirs: a.get.yaml with top-level response keys or with rules that   *)
(* name their response and request body inline, by file, by both or by    *)
(* neither; the convention files present or not; a.Get.yaml and           *)
(* a.get.v2.yaml, which derive the key of a.get.yaml; d/b.get.yaml in a   *)
(* subdirectory; notes.yaml, whose stem has one component.                *)
(**************************************************************************)
ACapGet == File(<<>>, <<"a", "Get", "yaml">>)
AGetV2 == File(<<>>, <<"a", "get", "v2", "yaml">>)
DBGet == File(<<"d">>, <<"b", "get", "yaml">>)
Notes == File(<<>>, <<"notes", "yaml">>)
AGetResp1 == File(<<>>, <<"a", "get", "resp", "1", "json">>)
AGetReq1 == File(<<>>, <<"a", "get", "req", "1", "json">>)
AGetResp2 == File(<<>>, <<"a", "get", "resp", "2", "json">>)
AGetReq2 == File(<<>>, <<"a", "get", "req", "2", "json">>)

NoFiles == [p \in {} |-> At(0, "")]
NoKeys == [k \in {} |-> PyNone]

ResponseTiers ==
    { NoKeys,
      [response |-> PyStr("inline")],
      [response_file |-> <<"payload", "json">>],
      [response |-> PyStr("inline"), response_file |-> <<"payload", "json">>] }

RequestTiers ==
    { NoKeys,
      [request |-> PyStr("wanted")],
      [request_file |-> <<"payload", "json">>],
      [request |-> PyStr("wanted"), request_file |-> <<"payload", "json">>] }

TierRules == {a @@ b : a \in ResponseTiers, b \in RequestTiers}

FirstRule == [params |-> ParamsKA, response |-> PyStr("first")]

TierLists == {<<m>> : m \in TierRules} \cup {<<FirstRule, m>> : m \in TierRules}

LoadConfigs ==
    { Mapping([status |-> 203]),
      Mapping([status |-> 203, response |-> PyStr("top")]),
      Mapping([response_file |-> <<"payload", "json">>]),
      Mapping([response |-> PyStr("top"), response_file |-> <<"payload", "json">>]) }
    \cup {Mapping([status |-> 203, matches |-> ms]) : ms \in TierLists}

Opt(present, p, text) == IF present THEN (p :> At(0, text)) ELSE NoFiles

LoadDirs ==
    { main @@ Opt(cap, ACapGet, Mapping([status |-> 201]))
           @@ Opt(v2, AGetV2, Mapping([status |-> 202]))
           @@ Opt(sub, DBGet, Mapping([status |-> 204]))
           @@ Opt(sub, Notes, YamlMalformed)
           @@ Opt(conv, AGetResp, "{id:2}")
           @@ Opt(resp1, AGetResp1, "{id:true}")
           @@ Opt(req1, AGetReq1, "{id:'1'}")
           @@ Opt(ord2, AGetResp2, "{id:'1'}")
           @@ Opt(ord2, AGetReq2, "{id:true}")
           @@ payload :
        main \in {NoFiles} \cup {AGet :> At(0, c) : c \in LoadConfigs},
        cap \in BOOLEAN, v2 \in BOOLEAN, sub \in BOOLEAN, conv \in BOOLEAN,
        resp1 \in BOOLEAN, req1 \in BOOLEAN, ord2 \in BOOLEAN,
        payload \in {NoFiles, Payload :> At(0, "{id:1}"), Payload :> At(0, "{")} }

LoadRequests ==
    { Request("GET", <<"/", "a">>, <<QP("k", "a")>>, "{id:1}"),
      Request("get", <<"/", "d", "/", "b">>, <<>>, "") }

InitLoad ==
    /\ reload = FALSE
    /\ fs \in LoadDirs
    /\ InitLocals

NextLoad ==
    \/ MainLoad
    \/ HStart(LoadRequests)
    \/ HLookup
    \/ HMatch
    \/ HDefault
    \/ HFinish

SpecLoad == InitLoad /\ [][NextLoad]_vars

(**************************************************************************)
(* What one table answers to one request: handle_request run with routes  *)
(* held fixed at table.                                                   *)
(**************************************************************************)
RECURSIVE FirstHolding(_, _, _)
FirstHolding(ms, r, i) ==
    IF i > Len(ms) THEN 0
    ELSE IF RuleHolds(ms[i], QueryFlat(r), ReadBody(r)) THEN i
    ELSE FirstHolding(ms, r, i + 1)

Respond(table, r) ==
    IF RouteMissing(Lookup(table, r)) THEN SendError(PathExists(table, r))
    ELSE LET e == Lookup(table, r)[1]
             k == FirstHolding(e.matches, r, 1)
         IN  IF k = 0 THEN Send(e.status, e.default_response)
             ELSE Send(e.matches[k].status, e.matches[k].response)

(**************************************************************************)
(* Properties                                                             *)
(**************************************************************************)
Served == hpc = "done"
ReqKey == <<Method(req), NormPath(req)>>
GetA == <<"GET", <<"/", "a">>>>
PostA == <<"POST", <<"/", "a">>>>
Rules == IF route = <<>> THEN <<>> ELSE route[1].matches
\* the rules of the request's route that the request satisfies
Holding == {i \in 1..Len(Rules) : RuleHolds(Rules[i], QueryFlat(req), ReadBody(req))}
\* the rules the loop has evaluated so far
Evaluated == {i \in 1..Len(Rules) : i < mi \/ (Served /\ i = mi)}

\* C1: every response equals what one single table that was live during
\* the request (the table before a reload, or the one after it) answers
\* to the request.
C1_OneGeneration ==
    Served => \E table \in gens : resp = <<Respond(table, req)>>

\* C2: a reload in which load_specs fails leaves the live table exactly as
\* it was before the reload.
C2_FailedReloadKeepsTable ==
    [][(wpc = "load" /\ wpc' # "load" /\ LoadFails(fs)) => routes' = routes]_vars

\* a request answered 200 from the route of a.get.yaml after the reload of
\* a directory that does not load
C2_Witness ==
    /\ wpc = "raised_load"
    /\ LoadFails(fs)
    /\ Served
    /\ req.command = "GET"
    /\ resp = <<Send(200, PyNone)>>

\* C3: a failed reload does not end the watcher: it is never ended by an
\* exception of load_specs.
C3_WatcherSurvivesFailedReload == wpc # "raised_load"

\* C4: a poll tick that finds a listed file missing from the previous
\* snapshot does not go back to sleep without reloading, and the table a
\* completed reload publishes has the route of every spec file then in the
\* directory.
C4_AddedFilePublished ==
    [][/\ (wpc \in {"snapshot", "sleep"} /\ wpc' \notin {"snapshot", "sleep"})
            => listed' = Watched(fs)
       /\ (wpc = "stat" /\ wpc' = "sleep") => listed \subseteq DOMAIN mtimes
       /\ (wpc = "load" /\ wpc' = "sleep")
            => \A p \in YamlFiles(fs) : IsRouteFile(p) => RouteKey(p) \in DOMAIN routes'
      ]_vars

\* a request to POST /a began on a table without that route, and a poll
\* tick has since published a table with it from the added a.post.yaml
C4_Witness ==
    /\ wpc = "sleep"
    /\ APost \in DOMAIN fs
    /\ APost \in DOMAIN mtimes
    /\ PostA \in DOMAIN routes
    /\ hpc # "idle"
    /\ \E table \in gens : PostA \notin DOMAIN table

\* C5: the response is that of the lowest-index rule the request
\* satisfies, and the loop never goes past a satisfied rule.
C5_FirstSatisfiedRuleWins ==
    /\ \A i \in Holding : mi <= i
    /\ (Served /\ Holding # {}) =>
          \A k \in Holding :
             (\A j \in Holding : k <= j) =>
                 /\ resp = <<Send(Rules[k].status, Rules[k].response)>>
                 /\ mi = k

\* a request satisfying two rules with different answers, answered
C5_Witness ==
    /\ Served
    /\ \E i \in Holding : \E j \in Holding :
          /\ i < j
          /\ Rules[i].response # Rules[j].response
          /\ resp = <<Send(Rules[i].status, Rules[i].response)>>

\* C6: a request whose (method, path) has a RouteEntry and that satisfies
\* none of its rules is answered with the entry's status and default
\* response, never with the 404/405 error responses.
C6_NoRuleGivesDefault ==
    (Served /\ ReqKey \in DOMAIN routes) =>
        LET e == routes[ReqKey]
        IN  (\A i \in 1..Len(e.matches) :
                 ~RuleHolds(e.matches[i], QueryFlat(req), ReadBody(req)))
            => /\ resp = <<Send(e.status, e.default_response)>>
               /\ resp[1] \notin {SendError(TRUE), SendError(FALSE)}

\* a request that went through two rules, satisfied none and got the default
C6_Witness ==
    /\ Served
    /\ ReqKey \in DOMAIN routes
    /\ Len(Rules) = 2
    /\ Holding = {}
    /\ resp = <<Send(203, JsonLoads("{id:2}"))>>

\* C7: without a RouteEntry for (method, normalized path), the response is
\* 405 {"error": "Method Not Allowed"} iff the path has an entry under
\* another method, and 404 {"error": "Not Found"} iff it has none.
C7_NotAllowedOrNotFound ==
    (Served /\ ReqKey \notin DOMAIN routes) =>
        LET other == \E k \in DOMAIN routes : k[2] = NormPath(req)
            r405 == Response(405, <<PyDict(<<Item("error", PyStr("Method Not Allowed"))>>)>>)
            r404 == Response(404, <<PyDict(<<Item("error", PyStr("Not Found"))>>)>>)
        IN  /\ resp = <<r405>> <=> other
            /\ resp = <<r404>> <=> ~other

\* POST /a/ answered 405: only GET /a has a spec
C7_Witness ==
    /\ Served
    /\ req.command = "POST"
    /\ req.path = <<"/", "a", "/">>
    /\ GetA \in DOMAIN routes
    /\ resp[1].status = 405

\* the query-parameter rule of C8 as claimed: every key occurs in the
\* query string and its first value is the expected string
ParamsFirstValue(params, query) ==
    \A i \in 1..Len(params.items) :
        LET vs == QsValues(query, params.items[i].k)
        IN  vs # <<>> /\ params.items[i].val = PyStr(vs[1])

\* as amended: every key has exactly one non-blank value in the query
\* string, the expected string
ParamsSingleValue(params, query) ==
    \A i \in 1..Len(params.items) :
        QsValues(query, params.items[i].k) = <<params.items[i].val.s>>
        /\ params.items[i].val.ty = "str"

\* C8 (as claimed): an evaluated query-parameter rule answers iff every key
\* of params occurs in the query string with the expected value, a repeated
\* parameter compared by its first value.
C8_FirstValueCompared ==
    \A i \in Evaluated :
        IsParamsRule(Rules[i]) =>
            ((Served /\ i = mi) <=> ParamsFirstValue(Rules[i].params, req.query))

\* C8 (amended): an evaluated query-parameter rule answers iff every key of
\* params has exactly one non-blank value in the query string and that
\* value is the expected string; a repeated parameter satisfies no rule.
C8_SingleValueCompared ==
    \A i \in Evaluated :
        IsParamsRule(Rules[i]) =>
            ((Served /\ i = mi) <=> ParamsSingleValue(Rules[i].params, req.query))

\* the rule on k=a evaluated and not satisfied by the query k=a&k=b
C8_Witness ==
    /\ Served
    /\ req.query = <<QP("k", "a"), QP("k", "b")>>
    /\ \E i \in Evaluated :
          /\ Rules[i].params = ParamsKA
          /\ i < mi

\* C9: the body stream is read at most once per request, and only when a
\* body-equality rule has been evaluated.
C9_BodyReadAtMostOnce ==
    /\ rfile_reads <= 1
    /\ rfile_reads > 0 => \E i \in Evaluated : IsBodyRule(Rules[i])

\* two body-equality rules evaluated on one read of the body
C9_Witness ==
    /\ Served
    /\ rfile_reads = 1
    /\ Evaluated = {1, 2}
    /\ IsBodyRule(Rules[1])
    /\ IsBodyRule(Rules[2])

\* C10: a body-equality rule loaded from a request_file answers only a
\* request whose body is the same JSON value, type for type, as the file's.
C10_TypeSensitiveEquality ==
    (Served /\ mi \in 1..Len(Rules) /\ IsBodyRule(Rules[mi])) =>
        LET m == YamlConfig(fs[AGet].text).matches[mi]
        IN  ("request_file" \in DOMAIN m /\ "request" \notin DOMAIN m) =>
                /\ JsonValid(req.body)
                /\ JsonValue(req.body) = JsonValue(fs[WithName(AGet, m.request_file)].text)

(**************************************************************************)
(* Properties of the loaded table (SpecLoad)                              *)
(**************************************************************************)
Loaded == mpc = "serving"
AGetConfig == YamlConfig(fs[AGet].text)
AGetRoute == routes[GetA]
FileValue(q) == JsonLoads(fs[q].text)

\* C11 (as claimed): the default response of a RouteEntry is the top-level
\* inline response: when that key is present, else the content of the file
\* named by the top-level response_file:, else the content of
\* <name>.<method>.resp.json when it exists, else no value.
C11_ThreeTierDefault ==
    (Loaded /\ AGet \in DOMAIN fs) =>
        LET c == AGetConfig
            d == AGetRoute.default_response
        IN  IF "response" \in DOMAIN c THEN d = c.response
            ELSE IF "response_file" \in DOMAIN c
                 THEN /\ WithName(AGet, c.response_file) \in DOMAIN fs
                      /\ d = FileValue(WithName(AGet, c.response_file))
            ELSE IF AGetResp \in DOMAIN fs THEN d = FileValue(AGetResp)
            ELSE d = PyNone

\* C11 (amended): the default response of a RouteEntry is the content of
\* <name>.<method>.resp.json when that file exists and no value otherwise,
\* whatever top-level response: and response_file: keys the spec has; a
\* top-level response_file: is never opened.
C11_ConventionFileDefault ==
    /\ (Loaded /\ AGet \in DOMAIN fs) =>
           AGetRoute.default_response =
               IF AGetResp \in DOMAIN fs THEN FileValue(AGetResp) ELSE PyNone
    /\ (mpc = "exit" /\ AGet \in DOMAIN fs) => "matches" \in DOMAIN AGetConfig

C11_Witness ==
    /\ Loaded
    /\ AGet \in DOMAIN fs
    /\ DOMAIN AGetConfig = {"response", "response_file"}
    /\ Payload \notin DOMAIN fs
    /\ AGetResp \in DOMAIN fs
    /\ AGetRoute.default_response = PyDict(<<Item("id", PyInt(2))>>)

\* the rules of a.get.yaml as written, and the ordinal convention files of
\* its i-th rule
AGetMatches == Get(AGetConfig, "matches", <<>>)
RespOrdinal(i) == IF i = 1 THEN AGetResp1 ELSE AGetResp2
ReqOrdinal(i) == IF i = 1 THEN AGetReq1 ELSE AGetReq2
Readable(q) == q \in DOMAIN fs /\ JsonValid(fs[q].text)

\* the value the three tiers give: the inline value, else the content of
\* the referenced file, else the content of the ordinal file, else None
TierValue(m, inline, by_file, ordinal) ==
    IF inline \in DOMAIN m THEN m[inline]
    ELSE IF by_file \in DOMAIN m THEN FileValue(WithName(AGet, m[by_file]))
    ELSE IF ordinal \in DOMAIN fs THEN FileValue(ordinal)
    ELSE PyNone

\* the file tier is consulted and its file cannot be read
TierRaises(m, inline, by_file) ==
    /\ inline \notin DOMAIN m
    /\ by_file \in DOMAIN m
    /\ ~Readable(WithName(AGet, m[by_file]))

\* C12: the response and the request body of the i-th rule of a spec are
\* each resolved on their own: the inline value when the inline key is
\* present; else the content of the referenced file when the file key is
\* present; else the content of the ordinal convention file of i when it
\* exists; else no value, without a load error.  A file key beside an
\* inline key is never consulted.
C12_MatchTiers ==
    AGet \in DOMAIN fs =>
        /\ Loaded =>
              /\ Len(AGetRoute.matches) = Len(AGetMatches)
              /\ \A i \in 1..Len(AGetMatches) :
                    /\ ~TierRaises(AGetMatches[i], "response", "response_file")
                    /\ ~TierRaises(AGetMatches[i], "request", "request_file")
                    /\ AGetRoute.matches[i].response =
                          TierValue(AGetMatches[i], "response", "response_file", RespOrdinal(i))
                    /\ AGetRoute.matches[i].request_body =
                          TierValue(AGetMatches[i], "request", "request_file", ReqOrdinal(i))
        /\ mpc = "exit" =>
              \E i \in 1..Len(AGetMatches) :
                 \/ TierRaises(AGetMatches[i], "response", "response_file")
                 \/ TierRaises(AGetMatches[i], "request", "request_file")

C12_Witness ==
    /\ Loaded
    /\ AGet \in DOMAIN fs
    /\ Len(AGetMatches) = 2
    /\ DOMAIN AGetMatches[2] = {"request", "request_file"}
    /\ Payload \notin DOMAIN fs
    /\ AGetReq2 \in DOMAIN fs
    /\ AGetReq1 \notin DOMAIN fs
    /\ AGetRoute.matches[2].request_body = PyStr("wanted")
    /\ AGetRoute.matches[2].response = PyDict(<<Item("id", PyStr("1"))>>)
    /\ AGetRoute.matches[1].request_body = PyNone

\* the spec files of the directory that derive key, and the one of them
\* that the sorted enumeration yields last
Deriving(key) == {p \in YamlFiles(fs) : Len(p.name) >= 3 /\ RouteKey(p) = key}
LastOf(S) == CHOOSE p \in S : \A q \in S \ {p} : PathLess(q, p)

\* C13: when several spec files derive the same route key, the table holds
\* for that key the RouteEntry built from the file that is last in the
\* sorted enumeration, and the load raises no error for the duplicates:
\* of a.Get.yaml < a.get.v2.yaml < a.get.yaml the last one present wins.
C13_LastFileWins ==
    /\ Loaded =>
          \A key \in DOMAIN routes :
             /\ Deriving(key) # {}
             /\ routes[key] = BuildRoute(fs, LastOf(Deriving(key)))
    /\ (Loaded /\ ACapGet \in DOMAIN fs) =>
          AGetRoute.status = IF AGet \in DOMAIN fs THEN Get(AGetConfig, "status", 200)
                             ELSE IF AGetV2 \in DOMAIN fs THEN 202
                             ELSE 201
    /\ (mpc = "exit") => (AGet \in DOMAIN fs /\ ~Readable(Payload))

C13_Witness ==
    /\ Loaded
    /\ {ACapGet, AGetV2, AGet} \subseteq DOMAIN fs
    /\ Cardinality(Deriving(GetA)) = 3
    /\ AGetRoute.status = 203
    /\ AGetRoute.matches # <<>>

\* C14: the keys of a table that loaded are exactly the pairs (upper-cased
\* second stem component, "/" + directory segments + first stem component)
\* of the .yaml files whose stem has at least two components; a .yaml file
\* with a shorter stem (notes.yaml, here not even YAML) gives no key and
\* no error.
C14_KeysOfSpecFiles ==
    /\ Loaded =>
          DOMAIN routes =
             { <<Upper(p.name[2]), SlashJoin(p.dir \o <<p.name[1]>>)>> :
                  p \in {q \in DOMAIN fs : Len(q.name) >= 3 /\ q.name[Len(q.name)] = "yaml"} }
    /\ (mpc = "exit") =>
          \E i \in 1..Len(AGetMatches) :
             \/ TierRaises(AGetMatches[i], "response", "response_file")
             \/ TierRaises(AGetMatches[i], "request", "request_file")

C14_Witness ==
    /\ Loaded
    /\ {Notes, DBGet, AGetV2, Payload, AGetResp} \subseteq DOMAIN fs
    /\ ~YamlValid(fs[Notes].text)
    /\ DOMAIN routes = {GetA, <<"GET", <<"/", "d", "/", "b">>>>}

\* C15: a file-system error during the poll snapshot (a file that is gone
\* between being listed and having its mtime read) does not end the
\* watcher: it is never left by an exception raised in snapshot().
C15_WatcherSurvivesSnapshotError == wpc # "raised_stat"

\* the three modes of a rule, read off the fields of its MatchEntry
ParamsSet(i) == Rules[i].params.ty # "NoneType"
BodySet(i) == ~ParamsSet(i) /\ Rules[i].request_body.ty # "NoneType"
\* the loop returned at rule i
Answered(i) == Served /\ mi = i
DefaultSent == resp = <<Send(route[1].status, route[1].default_response)>>

\* C16: every rule is evaluated in exactly one of three modes.  With params
\* set it is judged on the query string alone: its request body is not
\* compared and the body of the request is not read for it.  Else, with a
\* request body that is not null, it is judged by equality with the body of
\* the request.  Else no request satisfies it.
C16_OneModePerRule ==
    /\ \A i \in Evaluated :
          IF ParamsSet(i) THEN Answered(i) <=> ParamsHold(Rules[i].params, QueryFlat(req))
          ELSE IF BodySet(i) THEN Answered(i) <=> PyEq(ReadBody(req), Rules[i].request_body)
          ELSE ~Answered(i)
    /\ (\A i \in Evaluated : ~BodySet(i)) => (~body_read /\ rfile_reads = 0)

C16_Witness ==
    /\ Served
    /\ Len(Rules) = 2
    /\ ParamsSet(1)
    /\ PyEq(ReadBody(req), Rules[1].request_body)
    /\ req.query = <<>>
    /\ ~ParamsSet(2) /\ ~BodySet(2)
    /\ mi = 3
    /\ rfile_reads = 0
    /\ DefaultSent

\* C17: a request whose body is empty or not JSON is not rejected: no
\* body-equality rule answers it, the rules after such a rule are still
\* evaluated in order, and with no query-parameter rule satisfied the
\* route's default status and response are sent.
C17_UnusableBodyFallsThrough ==
    (Served /\ route # <<>> /\ req.body \in {"", "{"}) =>
        /\ resp[1] \notin {SendError(TRUE), SendError(FALSE)}
        /\ \A i \in 1..Len(Rules) : BodySet(i) => ~Answered(i)
        /\ \A i \in 1..Len(Rules) :
              (ParamsSet(i) /\ ParamsHold(Rules[i].params, QueryFlat(req))) => mi <= i
        /\ mi > Len(Rules) => DefaultSent

C17_Witness ==
    /\ Served
    /\ req.body = "{"
    /\ Len(Rules) = 2
    /\ BodySet(1)
    /\ ParamsSet(2)
    /\ mi = 2
    /\ body_read
    /\ rfile_reads = 1
    /\ body = PyNone

\* C20: a rule whose params mapping is present and empty is satisfied by
\* every request to its route, whatever its query string and body: the
\* loop never passes it, so the rules after it are not evaluated and the
\* default response is not sent; reached, it answers.
C20_EmptyParamsAlwaysHolds ==
    \A i \in 1..Len(Rules) :
        Rules[i].params = PyDict(<<>>) =>
            /\ mi <= i
            /\ (Served /\ mi = i) => resp = <<Send(Rules[i].status, Rules[i].response)>>
            /\ (Served /\ mi < i) => resp = <<Send(Rules[mi].status, Rules[mi].response)>>

C20_Witness ==
    /\ Served
    /\ Len(Rules) = 2
    /\ Rules[1].params = PyDict(<<>>)
    /\ req.query = <<QP("k", "b")>>
    /\ req.body = "{id:'1'}"
    /\ BodySet(2)
    /\ PyEq(ReadBody(req), Rules[2].request_body)
    /\ mi = 1
    /\ resp = <<Send(203, PyStr("empty"))>>

\* C18: a step of the request handler leaves the table reference as it is,
\* and the tables that were live during the request stay what they were;
\* a reload does not touch the RouteEntry a handler holds.  After startup
\* the table reference changes only in a reload that succeeds, and that
\* reload installs the table freshly built from the directory.
C18_OnlyReloadInstallsTable ==
    [][ /\ (hvars' # hvars) => routes' = routes
        /\ (hpc # "idle" /\ hpc' # "idle") => gens \subseteq gens'
        /\ (wvars' # wvars) => route' = route
        /\ (routes' # routes /\ mpc # "start") =>
              (wpc = "load" /\ wpc' = "sleep" /\ ~LoadFails(fs))
        /\ (wpc = "load" /\ wpc' = "sleep") => routes' = LoadSpecs(fs) ]_vars

C18_Witness ==
    /\ hpc = "match"
    /\ wpc = "sleep"
    /\ Cardinality(gens) = 2
    /\ routes = LoadSpecs(fs)
    /\ ReqKey = GetA
    /\ GetA \notin DOMAIN routes
    /\ PostA \in DOMAIN routes
    /\ route # <<>>

\* the snapshot the watcher would take of the directory as it is now
SnapshotNow == [p \in Watched(fs) |-> fs[p].mtime]

\* C19: once the directory stops changing and loads without error, the
\* live table comes to equal the table loaded from it, changes made between
\* the startup load and the first snapshot included.  A watcher that sleeps
\* holding the snapshot of the directory as it is now finds no change in
\* any later poll while the directory stays as it is, so the table has to
\* be the one loaded from the directory already.
C19_QuiescentTableIsCurrent ==
    (wpc = "sleep" /\ mtimes = SnapshotNow /\ ~LoadFails(fs)) => routes = LoadSpecs(fs)
=============================================================================
